---- MODULE Spec2Model ----
(***************************************************************************)
(* Model of the Trader bot: the signal detector (strategy.py), the order   *)
(* execution pipeline (execution.py, class Executor) and the scan loop     *)
(* (main.py, run_bot_iteration).                                           *)
(*                                                                         *)
(* Number representation.                                                 *)
(*   - candle fields, balances and prices are integers;                    *)
(*   - slice amounts, quantities, step sizes and take-profit prices are    *)
(*     rationals [num, den] in lowest terms with den > 0, each standing    *)
(*     for the Python float nearest to it;                                 *)
(*   - the arithmetic of _qty_from_usdt and of the take-profit price is    *)
(*     done on IEEE 754 doubles held as bit sequences, rounded after every *)
(*     operation as Python rounds.                                         *)
(* A value the exchange returns as JSON is a record [t |-> "num", v |-> n] *)
(* or [t |-> "null"]; a Python dict is a record, and key presence is       *)
(* membership in its DOMAIN.                                               *)
(***************************************************************************)
EXTENDS Integers, Sequences, FiniteSets, TLC

VARIABLES
    \* --- scan loop (main.py) ---
    pc,            \* position of the program: "idle","fetch","trade","save","crashed",
                   \* or "signal"/"signal_done"/"direct" when a function is called on its own
    scans,         \* number of run_bot_iteration calls made so far
    symbols,       \* list returned by get_usdtm_symbols()
    symIdx,        \* index of the for-loop over symbols
    klines,        \* last fetched candles (<<>> when absent)
    signal,        \* last result of evaluate_symbol_for_signal
    sigparams,     \* [volume_multiplier, c1_dollar_min] passed to the detector
    new_opened,    \* list of ledger entries opened in this scan
    open_trades,   \* ledger loaded from the state file
    state_file,    \* state.json: [kind |-> "missing" | "corrupt" | "ok", open_trades]
    visited,       \* symbols whose loop body has started in this scan, in order
    \* --- Executor.open_trade (execution.py) ---
    execer,        \* Executor fields [tp_pct, max_slices, leverage]
    tpc,           \* position inside open_trade
    targs,         \* [symbol, direction, entry_price_est, current_open_count]
    usdt_balance,
    slice_amount,
    current_price,
    qty,
    qty_step,      \* step size read by _qty_from_usdt
    fill_price,
    result,        \* value returned by open_trade (None while running or when it raised)
    calls,         \* exchange calls made by the current open_trade call, in order
    \* --- exchange data ---
    exchange       \* [listing, wallet, ticker, info]

vars == <<pc, scans, symbols, symIdx, klines, signal, sigparams, new_opened,
          open_trades, state_file, visited, execer, tpc, targs, usdt_balance,
          slice_amount, current_price, qty, qty_step, fill_price, result, calls,
          exchange>>

scanVars  == <<scans, symbols, symIdx, new_opened, open_trades, state_file, visited>>
tradeVars == <<tpc, targs, usdt_balance, slice_amount, current_price, qty, qty_step,
               fill_price, result, calls>>

None == [none |-> TRUE]

-----------------------------------------------------------------------------
(* Bounds *)

MaxScans == 1          \* iterations of the main loop explored
MaxOpenCount == 4      \* largest current_open_count passed to open_trade directly

-----------------------------------------------------------------------------
(* Rationals *)

Max(a, b) == IF a >= b THEN a ELSE b
Abs(a) == IF a < 0 THEN -a ELSE a

RECURSIVE GCD(_, _)
GCD(a, b) == IF b = 0 THEN a ELSE GCD(b, a % b)

RECURSIVE Pow10(_)
Pow10(n) == IF n = 0 THEN 1 ELSE 10 * Pow10(n - 1)

\* the rational n/d (d # 0) in lowest terms with a positive denominator
Rat(n, d) ==
    LET g == GCD(Abs(n), Abs(d))
        s == IF d < 0 THEN -1 ELSE 1
    IN  [num |-> s * (n \div g), den |-> s * (d \div g)]

RatLE(a, b) == a.num * b.den <= b.num * a.den
RatLT(a, b) == a.num * b.den < b.num * a.den
RatOfInt(n) == Rat(n, 1)
RatZero == RatOfInt(0)

\* r is an integer multiple k * s of s with k >= 0
IsNonNegMultiple(r, s) ==
    /\ r.num >= 0
    /\ (r.num * s.den) % (r.den * s.num) = 0

-----------------------------------------------------------------------------------------------------------------------------------------------------
(* Python floats: IEEE 754 doubles, 53 significant bits, every operation
   rounded to the nearest float, ties to the even one.  A natural number too
   large for one integer is held as the sequence of its digits in base 2^15
   (limbs), most significant first; a float is sign * man * 2^exp with man a
   number of 53 bits, held in four limbs.  A rational [num, den] held by a
   variable of the program stands for the float nearest to it. *)

MANT == 53          \* significant bits of a double
LIMB == 15          \* bits of a limb
MANT_LIMBS == 4     \* limbs of a mantissa
FRAC_LIMBS == 6     \* limbs worked out after the point of a quotient of integers
GUARD_LIMBS == 3    \* zero limbs put after a mantissa before a division
FAR == 64           \* exponent gap beyond which the smaller term of a sum is lost

BASE == 2^LIMB

Sign(n) == IF n < 0 THEN -1 ELSE IF n = 0 THEN 0 ELSE 1

Zeros(k) == [i \in 1..k |-> 0]

IsZero(x) == \A i \in 1..Len(x) : x[i] = 0

\* x without the zero limbs it starts with
StripZeros(x) ==
    IF IsZero(x) THEN <<>>
    ELSE LET first == CHOOSE i \in 1..Len(x) :
                          x[i] # 0 /\ \A j \in 1..(i - 1) : x[j] = 0
         IN  SubSeq(x, first, Len(x))

\* the limbs of n, for 0 <= n < 2^31
LimbsOfNat(n) == StripZeros(<<n \div (BASE * BASE), (n \div BASE) % BASE, n % BASE>>)

\* the number written by the digits lo..hi of x in base 2^w
RECURSIVE NatOfDigits(_, _, _, _)
NatOfDigits(x, w, lo, hi) ==
    IF lo > hi THEN 0
    ELSE IF lo = hi THEN x[lo]
    ELSE LET mid == (lo + hi) \div 2
         IN  NatOfDigits(x, w, lo, mid) * 2^(w * (hi - mid))
               + NatOfDigits(x, w, mid + 1, hi)

NatOfLimbs(x) == NatOfDigits(x, LIMB, 1, Len(x))

\* limb j of x counted from the least significant one, which is limb 0
LimbAt(x, j) == IF j >= 0 /\ j < Len(x) THEN x[Len(x) - j] ELSE 0

\* the LIMB bits of x from bit p up (bit 0 is the least significant one)
Word(x, p) ==
    LET j == p \div LIMB
        r == p % LIMB
    IN  (LimbAt(x, j) \div 2^r) + (LimbAt(x, j + 1) % 2^r) * 2^(LIMB - r)

BitAt(x, p) == Word(x, p) % 2

\* the last n limbs of x / 2^s cut to a whole number (of x * 2^-s for s < 0)
Shift(x, s, n) == [i \in 1..n |-> Word(x, s + LIMB * (n - i))]

\* x with every bit from bit s up cleared: x modulo 2^s
Low(x, s) ==
    [i \in 1..Len(x) |->
        LET j == Len(x) - i
        IN  IF LIMB * (j + 1) <= s THEN x[i]
            ELSE IF LIMB * j < s THEN x[i] % 2^(s - LIMB * j)
            ELSE 0]

\* number of bits of x, for limbs x that start with a limb other than 0
BitLength(x) ==
    LIMB * (Len(x) - 1) + Cardinality({k \in 0..(LIMB - 1) : 2^k <= x[1]})

\* a < b for limb sequences of the same length
LessLimbs(a, b) ==
    \E i \in 1..Len(a) : a[i] < b[i] /\ \A j \in 1..(i - 1) : a[j] = b[j]

Reverse(x) == [i \in 1..Len(x) |-> x[Len(x) + 1 - i]]

\* step[s, i] gives the digit [out] of position i and the next [s]: the digits
\* of positions lo..hi, worked out from lo up (Upward) or from hi down
\* (Downward) with s handed from each position to the next, and the s left at
\* the end
RECURSIVE Upward(_, _, _, _)
Upward(step, s, lo, hi) ==
    IF lo > hi THEN [out |-> <<>>, s |-> s]
    ELSE IF lo = hi THEN LET r == step[s, lo] IN [out |-> <<r.out>>, s |-> r.s]
    ELSE LET mid == (lo + hi) \div 2
             a   == Upward(step, s, lo, mid)
             b   == Upward(step, a.s, mid + 1, hi)
         IN  [out |-> a.out \o b.out, s |-> b.s]

Downward(step, s, lo, hi) ==
    LET back == [st \in Nat, i \in Nat |-> step[st, lo + hi - i]]
        r == Upward(back, s, lo, hi)
    IN  [out |-> Reverse(r.out), s |-> r.s]

\* a + b and a - b (a >= b) for limb sequences of the same length
AddLimbs(a, b) ==
    LET step == [carry \in Nat, i \in Nat |->
                    LET t == a[i] + b[i] + carry
                    IN  [out |-> t % BASE, s |-> t \div BASE]]
        r == Downward(step, 0, 1, Len(a))
    IN  <<r.s>> \o r.out

SubLimbs(a, b) ==
    LET step == [borrow \in Nat, i \in Nat |->
                    LET t == a[i] - b[i] - borrow
                    IN  IF t < 0 THEN [out |-> t + BASE, s |-> 1]
                        ELSE [out |-> t, s |-> 0]]
    IN  Downward(step, 0, 1, Len(a)).out

\* x * k for 0 <= k < 2^15, and for 0 <= k < 2^30
MulLimb(x, k) ==
    LET step == [carry \in Nat, i \in Nat |->
                    LET t == x[i] * k + carry
                    IN  [out |-> t % BASE, s |-> t \div BASE]]
        r == Downward(step, 0, 1, Len(x))
    IN  <<r.s>> \o r.out

MulInt(x, k) ==
    IF k < BASE THEN MulLimb(x, k)
    ELSE AddLimbs(<<0>> \o MulLimb(x, k % BASE), MulLimb(x, k \div BASE) \o <<0>>)

\* bits taken at a time by a long division by k, 0 < k < 2^30: a limb, or a
\* part of a limb small enough for remainder * 2^bits to stay under 2^31
DigitBits(k) ==
    IF k <= 2^15 THEN 15 ELSE IF k <= 2^25 THEN 5 ELSE IF k <= 2^27 THEN 3 ELSE 1

\* the digits of x in base 2^w, for w a divisor of LIMB
Digits(x, w) ==
    LET g == LIMB \div w
    IN  [i \in 1..(Len(x) * g) |->
            (x[(i - 1) \div g + 1] \div 2^(w * (g - 1 - ((i - 1) % g)))) % 2^w]

\* long division of x by k, 0 < k < 2^30: the limbs of the quotient [out], as
\* many as x has, and the remainder [s]
DivInt(x, k) ==
    LET w == DigitBits(k)
        g == LIMB \div w
        d == Digits(x, w)
        step == [r \in Nat, i \in Nat |->
                    LET t == r * 2^w + d[i]
                    IN  [out |-> t \div k, s |-> t % k]]
        q == Upward(step, 0, 1, Len(d))
    IN  [out |-> [j \in 1..Len(x) |-> NatOfDigits(q.out, w, (j - 1) * g + 1, j * g)],
         s   |-> q.s]

FloatZero == [sign |-> 0, man |-> <<>>, exp |-> 0]

\* the float nearest to sign * x * 2^e, for limbs x that start with a limb other
\* than 0; sticky says that x was cut from a longer number with ones after the
\* cut
RoundToFloat(sign, x, e, sticky) ==
    IF x = <<>> THEN FloatZero
    ELSE LET cut == BitLength(x) - MANT
             top == Shift(x, cut, MANT_LIMBS)
             up  == /\ cut > 0
                    /\ BitAt(x, cut - 1) = 1
                    /\ (sticky \/ ~IsZero(Low(x, cut - 1)) \/ top[MANT_LIMBS] % 2 = 1)
             m   == IF up THEN AddLimbs(top, Zeros(MANT_LIMBS - 1) \o <<1>>)
                    ELSE <<0>> \o top
         IN  IF BitLength(StripZeros(m)) > MANT
             THEN [sign |-> sign, man |-> Shift(m, 1, MANT_LIMBS), exp |-> e + cut + 1]
             ELSE [sign |-> sign, man |-> Shift(m, 0, MANT_LIMBS), exp |-> e + cut]

\* the float nearest to sign * (w + m/d), for w >= 0 and 0 <= m < d < 2^30
FloatOfParts(sign, w, m, d) ==
    LET q == DivInt(LimbsOfNat(m) \o Zeros(FRAC_LIMBS), d)
    IN  RoundToFloat(sign,
                     StripZeros(LimbsOfNat(w) \o Shift(q.out, 0, FRAC_LIMBS)),
                     -(LIMB * FRAC_LIMBS), q.s # 0)

\* float(n / d) for integers n and d > 0
FloatOfRat(n, d) == FloatOfParts(Sign(n), Abs(n) \div d, Abs(n) % d, d)

\* f * float(k) and f / float(k) for an integer k, |k| < 2^30
FloatMulInt(f, k) ==
    IF f.sign = 0 \/ k = 0 THEN FloatZero
    ELSE RoundToFloat(f.sign * Sign(k), StripZeros(MulInt(f.man, Abs(k))), f.exp,
                      FALSE)

FloatDivInt(f, k) ==
    IF f.sign = 0 THEN FloatZero
    ELSE LET d == DivInt(f.man \o Zeros(GUARD_LIMBS), Abs(k))
         IN  RoundToFloat(f.sign * Sign(k), StripZeros(d.out),
                          f.exp - LIMB * GUARD_LIMBS, d.s # 0)

FloatNeg(f) == [f EXCEPT !.sign = -f.sign]

\* f + g
FloatAdd(f, g) ==
    IF f.sign = 0 THEN g
    ELSE IF g.sign = 0 THEN f
    ELSE IF f.exp - g.exp > FAR THEN f
    ELSE IF g.exp - f.exp > FAR THEN g
    ELSE LET e == IF f.exp < g.exp THEN f.exp ELSE g.exp
             n == MANT_LIMBS + Abs(f.exp - g.exp) \div LIMB + 1
             x == Shift(f.man, e - f.exp, n)
             y == Shift(g.man, e - g.exp, n)
         IN  IF f.sign = g.sign
             THEN RoundToFloat(f.sign, StripZeros(AddLimbs(x, y)), e, FALSE)
             ELSE IF LessLimbs(x, y)
             THEN RoundToFloat(g.sign, StripZeros(SubLimbs(y, x)), e, FALSE)
             ELSE RoundToFloat(f.sign, StripZeros(SubLimbs(x, y)), e, FALSE)

\* |f| * 10^places cut after the point, for |f| < 2^31: the whole part of
\* |f|, the whole part of (fraction of |f|) * 10^places, and the first bit and
\* the rest of what is cut
Scaled(f, places) ==
    IF f.sign = 0 THEN [whole |-> 0, digits |-> 0, guard |-> 0, sticky |-> FALSE]
    ELSE LET s == IF f.exp > 0 THEN 0
                  ELSE IF -f.exp > MANT + FAR THEN MANT + FAR ELSE -f.exp
             y == MulInt(Low(f.man, s), Pow10(places))
         IN  [whole  |-> NatOfLimbs(Shift(f.man, s, MANT_LIMBS)),
              digits |-> NatOfLimbs(Shift(y, s, GUARD_LIMBS)),
              guard  |-> IF s = 0 THEN 0 ELSE BitAt(y, s - 1),
              sticky |-> s > 1 /\ ~IsZero(Low(y, s - 1))]

\* sign * (whole + digits / 10^places) as a rational
Mixed(sign, whole, digits, places) ==
    LET g == GCD(digits, Pow10(places))
    IN  [num |-> sign * (whole * (Pow10(places) \div g) + digits \div g),
         den |-> Pow10(places) \div g]

\* round(f, places): the value the float holds, rounded half to even
RoundFloat(f, places) ==
    LET c  == Scaled(f, places)
        up == c.guard = 1 /\ (c.sticky \/ c.digits % 2 = 1)
    IN  Mixed(f.sign, c.whole, IF up THEN c.digits + 1 ELSE c.digits, places)

\* Decimal(str(f)).quantize(Decimal 1E-places, ROUND_DOWN): str(f) is the
\* shortest decimal that reads back as f, so f is cut toward zero unless the
\* next number of that many places above |f| reads back as f
QuantizeFloat(f, places) ==
    LET c    == Scaled(f, places)
        last == c.digits + 1 = Pow10(places)
        next == FloatOfParts(1, IF last THEN c.whole + 1 ELSE c.whole,
                             IF last THEN 0 ELSE c.digits + 1, Pow10(places))
    IN  IF (c.guard = 0 /\ ~c.sticky) \/ next # [f EXCEPT !.sign = 1]
        THEN Mixed(f.sign, c.whole, c.digits, places)
        ELSE Mixed(f.sign, c.whole, c.digits + 1, places)

-----------------------------------------------------------------------------
(* strategy.py *)

VOLUME_MULTIPLIER_DEFAULT == 18
C1_DOLLAR_MIN == 5555
\* the move threshold 0.15 as MOVE_NUM / MOVE_DEN
MOVE_NUM == 15
MOVE_DEN == 100

\* (a - b) / b >= 0.15, computed only where the code computes it (b > 0)
MoveGE(a, b) == (a - b) * MOVE_DEN >= MOVE_NUM * b

\* datetime.fromtimestamp(ms / 1000.0, tz = utc).isoformat(): the instant to
\* the millisecond, as whole seconds and the millisecond remainder
IsoFormat(ms) == [epoch_s |-> ms \div 1000, ms |-> ms % 1000]

\* the detector with the direction checks in the other order
evaluate_short_first(ks, volume_multiplier, c1_dollar_min) ==
    IF Len(ks) < 3 THEN None
    ELSE
      LET C1 == ks[1]
          C2 == ks[2]
          C3 == ks[3]
          c1_dollar == C1.volume * C1.open
      IN  IF c1_dollar < c1_dollar_min THEN None
          ELSE IF C1.volume <= 0 \/ C2.volume < C1.volume * volume_multiplier THEN None
          ELSE IF C1.open <= 0 THEN None
          ELSE
            LET up_move_ge   == MoveGE(C2.high, C1.open)
                down_move_ge == (C1.open - C2.low) * MOVE_DEN >= MOVE_NUM * C1.open
                direction == IF down_move_ge THEN "SHORT"
                             ELSE IF up_move_ge THEN "LONG"
                             ELSE "NONE"
            IN  IF direction = "NONE" THEN None
                ELSE [direction |-> direction,
                      entry_price_est |-> C3.open,
                      entry_timestamp |-> IsoFormat(C2.open_time),
                      c1_dollar |-> c1_dollar]

\* the detector without the volume-explosion gate
evaluate_no_volume_gate(ks, volume_multiplier, c1_dollar_min) ==
    IF Len(ks) < 3 THEN None
    ELSE
      LET C1 == ks[1]
          C2 == ks[2]
          C3 == ks[3]
          c1_dollar == C1.volume * C1.open
      IN  IF c1_dollar < c1_dollar_min THEN None
          ELSE IF C1.volume <= 0 THEN None
          ELSE IF C1.open <= 0 THEN None
          ELSE
            LET up_move_ge   == MoveGE(C2.high, C1.open)
                down_move_ge == (C1.open - C2.low) * MOVE_DEN >= MOVE_NUM * C1.open
                direction == IF up_move_ge THEN "LONG"
                             ELSE IF down_move_ge THEN "SHORT"
                             ELSE "NONE"
            IN  IF direction = "NONE" THEN None
                ELSE [direction |-> direction,
                      entry_price_est |-> C3.open,
                      entry_timestamp |-> IsoFormat(C2.open_time),
                      c1_dollar |-> c1_dollar]

evaluate_symbol_for_signal(ks, volume_multiplier, c1_dollar_min) ==
    IF Len(ks) < 3 THEN None
    ELSE
      LET C1 == ks[1]
          C2 == ks[2]
          C3 == ks[3]
          c1_dollar == C1.volume * C1.open
      IN  IF c1_dollar < c1_dollar_min THEN None
          ELSE IF C1.volume <= 0 \/ C2.volume < C1.volume * volume_multiplier THEN None
          ELSE IF C1.open <= 0 THEN None
          ELSE
            LET up_move_ge   == MoveGE(C2.high, C1.open)
                down_move_ge == (C1.open - C2.low) * MOVE_DEN >= MOVE_NUM * C1.open
                direction == IF up_move_ge THEN "LONG"
                             ELSE IF down_move_ge THEN "SHORT"
                             ELSE "NONE"
            IN  IF direction = "NONE" THEN None
                ELSE [direction |-> direction,
                      entry_price_est |-> C3.open,
                      entry_timestamp |-> IsoFormat(C2.open_time),
                      c1_dollar |-> c1_dollar]

-----------------------------------------------------------------------------
(* execution.py: helpers *)

LEVERAGE == 5                 \* self.leverage
FALLBACK_BALANCE == 1000      \* balance used when the read yields nothing
DEFAULT_STEP == Rat(1, 1)     \* qty_step = 1.0
\* max_slice_allowed = usdt_balance * 0.5
SLICE_CAP == Rat(1, 2)

\* index of the first element of seq s satisfying P, 0 when there is none
FirstIndex(s, P(_)) ==
    IF \E i \in 1..Len(s) : P(s[i])
    THEN CHOOSE i \in 1..Len(s) : P(s[i]) /\ \A j \in 1..(i - 1) : ~P(s[j])
    ELSE 0

\* _get_usdt_balance on a balance list that was read successfully: the first
\* USDT row decides; its fields are strings, so a present field is truthy
balance_from_list(bal) ==
    LET IsUsdt(a) == a.asset = "USDT"
        i == FirstIndex(bal, IsUsdt)
    IN  IF i = 0 THEN FALLBACK_BALANCE
        ELSE IF "availableBalance" \in DOMAIN bal[i] THEN bal[i].availableBalance
        ELSE IF "balance" \in DOMAIN bal[i] THEN bal[i].balance
        ELSE 0

\* _get_symbol_info on an exchange-info list that was read successfully
get_symbol_info(syms, symbol) ==
    LET IsSym(s) == s.symbol = symbol
        i == FirstIndex(syms, IsSym)
    IN  IF i = 0 THEN None ELSE syms[i]

\* the stepSize _qty_from_usdt reads from the symbol info
step_of_info(info) ==
    IF info = None THEN DEFAULT_STEP
    ELSE
      LET IsLot(f) == f.filterType = "LOT_SIZE"
          i == FirstIndex(info.filters, IsLot)
      IN  IF i = 0 THEN DEFAULT_STEP
          ELSE IF "stepSize" \in DOMAIN info.filters[i] THEN info.filters[i].stepSize
          ELSE DEFAULT_STEP

\* digits after the point in str(float(step)): a float always prints at least
\* one ("1.0", "0.5", "0.001"); this is minus the exponent of Decimal(str(step))
RECURSIVE PlacesFrom(_, _)
PlacesFrom(step, d) ==
    IF (step.num * Pow10(d)) % step.den = 0 THEN d ELSE PlacesFrom(step, d + 1)
DecimalPlaces(step) == PlacesFrom(step, 1)


\* math.log10 of a step <= 0 (line 69) raises ValueError
MathDomainError == [raises |-> "ValueError"]

\* _qty_from_usdt after the price check, given the step it has read
qty_from_raw(usdt_amount, leverage, price, step) ==
    LET notional == FloatMulInt(FloatOfRat(usdt_amount.num, usdt_amount.den),
                                leverage)
        raw_qty  == FloatDivInt(notional, price)
        qty_out  == QuantizeFloat(raw_qty, DecimalPlaces(step))
    IN  IF step.num <= 0 THEN MathDomainError
        ELSE IF RatLE(qty_out, RatZero) THEN RatZero ELSE qty_out

\* remaining_slots = max(1, self.max_slices - int(current_open_count))
remaining_slots_unguarded(max_slices, current_open_count) ==
    IF max_slices - current_open_count = 0 THEN 1 ELSE max_slices - current_open_count

remaining_slots(max_slices, current_open_count) ==
    Max(1, max_slices - current_open_count)

\* slice_amount = balance / remaining_slots, capped at balance * 0.5
slice_for(balance, slots) ==
    LET s   == Rat(balance, slots)
        cap == Rat(balance * SLICE_CAP.num, SLICE_CAP.den)
    IN  IF RatLT(cap, s) THEN cap ELSE s

\* take-profit price of step 6: round(fill_price * (1 +/- tp_pct), 8)
tp_price_for(side, fill, tp_pct) ==
    LET tp     == FloatOfRat(tp_pct.num, tp_pct.den)
        factor == FloatAdd(FloatOfRat(1, 1), IF side = "BUY" THEN tp ELSE FloatNeg(tp))
    IN  RoundFloat(FloatMulInt(factor, fill), 8)

side_of(direction) == IF direction = "LONG" THEN "BUY" ELSE "SELL"

Call(op, ok, req) == [op |-> op, ok |-> ok, req |-> req]

\* a call that succeeded, with what the exchange answered
Answered(op, req, resp) == [op |-> op, ok |-> TRUE, req |-> req, resp |-> resp]

-----------------------------------------------------------------------------
(* execution.py: Executor.open_trade, one action per exchange call *)

NoArgs == [symbol |-> "", direction |-> "", entry_price_est |-> 0,
           current_open_count |-> 0]

\* the locals of a call that has not started
TradeIdle ==
    /\ tpc = "idle"
    /\ targs = NoArgs
    /\ usdt_balance = 0
    /\ slice_amount = RatZero
    /\ current_price = 0
    /\ qty = RatZero
    /\ qty_step = DEFAULT_STEP
    /\ fill_price = 0
    /\ result = None
    /\ calls = <<>>

Failure(error) == [ok |-> FALSE, error |-> error]

\* a margin-mode failure that is tried a second time
SetMarginRetrying ==
    /\ tpc = "margin"
    /\ \E ok \in BOOLEAN :
         /\ calls' = Append(calls, Call("futures_change_margin_type", ok,
                        [symbol |-> targs.symbol, marginType |-> "ISOLATED"]))
         /\ tpc' = IF ~ok /\ calls = <<>> THEN "margin" ELSE "leverage"
    /\ UNCHANGED <<targs, usdt_balance, slice_amount, current_price, qty, qty_step,
                   fill_price, result>>
    /\ UNCHANGED <<pc, klines, signal, sigparams, execer, exchange>>
    /\ UNCHANGED scanVars

\* a margin-mode failure that ends the call
SetMarginFatal ==
    /\ tpc = "margin"
    /\ \E ok \in BOOLEAN :
         /\ calls' = Append(calls, Call("futures_change_margin_type", ok,
                        [symbol |-> targs.symbol, marginType |-> "ISOLATED"]))
         /\ tpc' = IF ok THEN "leverage" ELSE "returned"
         /\ result' = IF ok THEN result ELSE Failure("margin_error")
    /\ UNCHANGED <<targs, usdt_balance, slice_amount, current_price, qty, qty_step,
                   fill_price>>
    /\ UNCHANGED <<pc, klines, signal, sigparams, execer, exchange>>
    /\ UNCHANGED scanVars

\* 1) futures_change_margin_type, best effort
SetMargin ==
    /\ tpc = "margin"
    /\ \E ok \in BOOLEAN :
         calls' = Append(calls, Call("futures_change_margin_type", ok,
                     [symbol |-> targs.symbol, marginType |-> "ISOLATED"]))
    /\ tpc' = "leverage"
    /\ UNCHANGED <<targs, usdt_balance, slice_amount, current_price, qty, qty_step,
                   fill_price, result>>
    /\ UNCHANGED <<pc, klines, signal, sigparams, execer, exchange>>
    /\ UNCHANGED scanVars

\* a leverage failure that is only logged
SetLeverageIgnoringFailure ==
    /\ tpc = "leverage"
    /\ \E ok \in BOOLEAN :
         calls' = Append(calls, Call("futures_change_leverage", ok,
                     [symbol |-> targs.symbol, leverage |-> execer.leverage]))
    /\ tpc' = "balance"
    /\ UNCHANGED <<targs, usdt_balance, slice_amount, current_price, qty, qty_step,
                   fill_price, result>>
    /\ UNCHANGED <<pc, klines, signal, sigparams, execer, exchange>>
    /\ UNCHANGED scanVars

\* 2) futures_change_leverage; a failure returns {ok: False, error}
SetLeverage ==
    /\ tpc = "leverage"
    /\ \E ok \in BOOLEAN :
         /\ calls' = Append(calls, Call("futures_change_leverage", ok,
                        [symbol |-> targs.symbol, leverage |-> execer.leverage]))
         /\ IF ok
            THEN /\ tpc' = "balance"
                 /\ UNCHANGED result
            ELSE /\ tpc' = "returned"
                 /\ result' = Failure("leverage_error")
    /\ UNCHANGED <<targs, usdt_balance, slice_amount, current_price, qty, qty_step,
                   fill_price>>
    /\ UNCHANGED <<pc, klines, signal, sigparams, execer, exchange>>
    /\ UNCHANGED scanVars

\* a failed balance read taken as an empty wallet
ReadBalanceEmptyOnFailure ==
    /\ tpc = "balance"
    /\ \E ok \in BOOLEAN :
         \E bal \in exchange.wallets :
              LET b == IF ok THEN balance_from_list(bal) ELSE 0
              IN  /\ calls' = Append(calls,
                        IF ok THEN Answered("futures_account_balance", None, bal)
                        ELSE Call("futures_account_balance", FALSE, None))
                  /\ usdt_balance' = b
                  /\ slice_amount' = slice_for(b,
                         remaining_slots(execer.max_slices, targs.current_open_count))
    /\ tpc' = "ticker"
    /\ UNCHANGED <<targs, current_price, qty, qty_step, fill_price, result>>
    /\ UNCHANGED <<pc, klines, signal, sigparams, execer, exchange>>
    /\ UNCHANGED scanVars

\* 3) _get_usdt_balance and the slice computation
ReadBalance ==
    /\ tpc = "balance"
    /\ \E ok \in BOOLEAN :
         \E bal \in exchange.wallets :
              LET b == IF ok THEN balance_from_list(bal) ELSE FALLBACK_BALANCE
              IN  /\ calls' = Append(calls,
                        IF ok THEN Answered("futures_account_balance", None, bal)
                        ELSE Call("futures_account_balance", FALSE, None))
                  /\ usdt_balance' = b
                  /\ slice_amount' = slice_for(b,
                         remaining_slots(execer.max_slices, targs.current_open_count))
    /\ tpc' = "ticker"
    /\ UNCHANGED <<targs, current_price, qty, qty_step, fill_price, result>>
    /\ UNCHANGED <<pc, klines, signal, sigparams, execer, exchange>>
    /\ UNCHANGED scanVars

\* 4) futures_symbol_ticker, falling back to entry_price_est
FetchTicker ==
    /\ tpc = "ticker"
    /\ \E ok \in BOOLEAN :
         \E ticker \in exchange.tickers :
              /\ calls' = Append(calls,
                    IF ok THEN Answered("futures_symbol_ticker",
                                        [symbol |-> targs.symbol], ticker)
                    ELSE Call("futures_symbol_ticker", FALSE, [symbol |-> targs.symbol]))
              /\ current_price' = IF ok /\ "price" \in DOMAIN ticker
                                  THEN ticker.price
                                  ELSE targs.entry_price_est
    /\ tpc' = "qty"
    /\ UNCHANGED <<targs, usdt_balance, slice_amount, qty, qty_step, fill_price, result>>
    /\ UNCHANGED <<pc, klines, signal, sigparams, execer, exchange>>
    /\ UNCHANGED scanVars

\* the quantity check dropped: a zero quantity goes on to the entry order
ComputeQtyUnchecked ==
    /\ tpc = "qty"
    /\ IF current_price <= 0
       THEN /\ qty' = RatZero
            /\ tpc' = "entry"
            /\ UNCHANGED <<qty_step, calls>>
       ELSE \E ok \in BOOLEAN :
              /\ calls' = Append(calls, Call("futures_exchange_info", ok, None))
              /\ IF ok
                 THEN \E step \in {step_of_info(
                                     get_symbol_info(exchange.symbols, targs.symbol))} :
                      \E q \in {qty_from_raw(slice_amount, execer.leverage,
                                             current_price, step)} :
                          /\ qty_step' = step
                          /\ qty' = IF q = MathDomainError THEN qty ELSE q
                          /\ tpc' = IF q = MathDomainError THEN "raised" ELSE "entry"
                 ELSE /\ tpc' = "raised"
                      /\ UNCHANGED <<qty, qty_step>>
    /\ UNCHANGED <<targs, usdt_balance, slice_amount, current_price, fill_price, result>>
    /\ UNCHANGED <<pc, klines, signal, sigparams, execer, exchange>>
    /\ UNCHANGED scanVars

\* _qty_from_usdt and the qty <= 0 check; futures_exchange_info is not guarded,
\* so its failure leaves open_trade as an exception
ComputeQty ==
    /\ tpc = "qty"
    /\ IF current_price <= 0
       THEN /\ qty' = RatZero
            /\ result' = Failure("computed qty <= 0")
            /\ tpc' = "returned"
            /\ UNCHANGED <<qty_step, calls>>
       ELSE \E ok \in BOOLEAN :
              /\ calls' = Append(calls, Call("futures_exchange_info", ok, None))
              /\ IF ok
                 THEN \E step \in {step_of_info(
                                     get_symbol_info(exchange.symbols, targs.symbol))} :
                      \E q \in {qty_from_raw(slice_amount, execer.leverage,
                                             current_price, step)} :
                          /\ qty_step' = step
                          /\ IF q = MathDomainError
                             THEN \* nothing in open_trade catches it
                                  /\ tpc' = "raised"
                                  /\ UNCHANGED <<qty, result>>
                             ELSE IF RatLE(q, RatZero)
                             THEN /\ qty' = q
                                  /\ result' = Failure("computed qty <= 0")
                                  /\ tpc' = "returned"
                             ELSE /\ qty' = q
                                  /\ tpc' = "entry"
                                  /\ UNCHANGED result
                 ELSE /\ tpc' = "raised"
                      /\ UNCHANGED <<qty, qty_step, result>>
    /\ UNCHANGED <<targs, usdt_balance, slice_amount, current_price, fill_price>>
    /\ UNCHANGED <<pc, klines, signal, sigparams, execer, exchange>>
    /\ UNCHANGED scanVars

EntryRequest ==
    [symbol |-> targs.symbol, side |-> side_of(targs.direction),
     type |-> "MARKET", quantity |-> qty]

\* an entry failure that falls through to the take-profit step
PlaceEntryFallThrough ==
    /\ tpc = "entry"
    /\ \E ok \in BOOLEAN :
         /\ calls' = Append(calls, Call("futures_create_order", ok, EntryRequest))
         /\ fill_price' = current_price
         /\ tpc' = "exit"
         /\ UNCHANGED result
    /\ UNCHANGED <<targs, usdt_balance, slice_amount, current_price, qty, qty_step>>
    /\ UNCHANGED <<pc, klines, signal, sigparams, execer, exchange>>
    /\ UNCHANGED scanVars

\* an entry that takes any avgPrice of the answer as the fill price
PlaceEntryTrustingAvgPrice ==
    /\ tpc = "entry"
    /\ \E ok \in BOOLEAN :
         /\ IF ok
            THEN \E order \in exchange.orders :
                 /\ calls' = Append(calls,
                                    Answered("futures_create_order", EntryRequest, order))
                 /\ IF "avgPrice" \in DOMAIN order /\ order.avgPrice.t # "num"
                   THEN \* float(order["avgPrice"]) raises inside the try
                        /\ result' = Failure("float_error")
                        /\ tpc' = "returned"
                        /\ UNCHANGED fill_price
                   ELSE /\ fill_price' =
                             IF "avgPrice" \in DOMAIN order
                             THEN order.avgPrice.v
                             ELSE current_price
                        /\ tpc' = "exit"
                        /\ UNCHANGED result
            ELSE /\ calls' = Append(calls,
                                    Call("futures_create_order", FALSE, EntryRequest))
                 /\ result' = Failure("order_error")
                 /\ tpc' = "returned"
                 /\ UNCHANGED fill_price
    /\ UNCHANGED <<targs, usdt_balance, slice_amount, current_price, qty, qty_step>>
    /\ UNCHANGED <<pc, klines, signal, sigparams, execer, exchange>>
    /\ UNCHANGED scanVars

\* 5) the MARKET order and the fill price taken from its response
PlaceEntry ==
    /\ tpc = "entry"
    /\ \E ok \in BOOLEAN :
         /\ IF ok
            THEN \E order \in exchange.orders :
                 /\ calls' = Append(calls,
                                    Answered("futures_create_order", EntryRequest, order))
                 /\ IF "avgPrice" \in DOMAIN order /\ order.avgPrice.t # "num"
                   THEN \* float(order["avgPrice"]) raises inside the try
                        /\ result' = Failure("float_error")
                        /\ tpc' = "returned"
                        /\ UNCHANGED fill_price
                   ELSE /\ fill_price' =
                             IF "avgPrice" \in DOMAIN order /\ order.avgPrice.v > 0
                             THEN order.avgPrice.v
                             ELSE current_price
                        /\ tpc' = "exit"
                        /\ UNCHANGED result
            ELSE /\ calls' = Append(calls,
                                    Call("futures_create_order", FALSE, EntryRequest))
                 /\ result' = Failure("order_error")
                 /\ tpc' = "returned"
                 /\ UNCHANGED fill_price
    /\ UNCHANGED <<targs, usdt_balance, slice_amount, current_price, qty, qty_step>>
    /\ UNCHANGED <<pc, klines, signal, sigparams, execer, exchange>>
    /\ UNCHANGED scanVars

\* a take-profit request priced from the side of the exit order
ExitRequestPricedFromExitSide ==
    LET side == side_of(targs.direction)
        exit_side == IF side = "BUY" THEN "SELL" ELSE "BUY"
    IN  [symbol |-> targs.symbol,
         side |-> exit_side,
         type |-> "LIMIT", timeInForce |-> "GTC",
         price |-> tp_price_for(exit_side, fill_price, execer.tp_pct),
         quantity |-> qty, reduceOnly |-> TRUE]

ExitRequest ==
    LET side == side_of(targs.direction)
    IN  [symbol |-> targs.symbol,
         side |-> IF side = "BUY" THEN "SELL" ELSE "BUY",
         type |-> "LIMIT", timeInForce |-> "GTC",
         price |-> tp_price_for(side, fill_price, execer.tp_pct),
         quantity |-> qty, reduceOnly |-> TRUE]

\* a take-profit failure reported as a failed trade
PlaceExitFatal ==
    /\ tpc = "exit"
    /\ \E ok \in BOOLEAN :
         /\ calls' = Append(calls, Call("futures_create_order", ok, ExitRequest))
         /\ result' = IF ok
                      THEN [ok |-> TRUE, fill_price |-> fill_price, qty |-> qty,
                            tp_price |-> ExitRequest.price,
                            slice_amount_usdt |-> slice_amount]
                      ELSE Failure("order_error")
    /\ tpc' = "returned"
    /\ UNCHANGED <<targs, usdt_balance, slice_amount, current_price, qty, qty_step,
                   fill_price>>
    /\ UNCHANGED <<pc, klines, signal, sigparams, execer, exchange>>
    /\ UNCHANGED scanVars

\* 6) the reduce-only LIMIT order; a failure still returns ok with tp_price None
PlaceExit ==
    /\ tpc = "exit"
    /\ \E request \in {ExitRequest}, ok \in BOOLEAN :
         /\ calls' = Append(calls, Call("futures_create_order", ok, request))
         /\ result' = [ok |-> TRUE, fill_price |-> fill_price, qty |-> qty,
                       tp_price |-> IF ok THEN request.price ELSE None,
                       slice_amount_usdt |-> slice_amount]
    /\ tpc' = "returned"
    /\ UNCHANGED <<targs, usdt_balance, slice_amount, current_price, qty, qty_step,
                   fill_price>>
    /\ UNCHANGED <<pc, klines, signal, sigparams, execer, exchange>>
    /\ UNCHANGED scanVars

NextTrade ==
    \/ SetMargin
    \/ SetLeverage
    \/ ReadBalance
    \/ FetchTicker
    \/ ComputeQty
    \/ PlaceEntry
    \/ PlaceExit

-----------------------------------------------------------------------------
(* main.py *)

MAX_SLICES == 10                 \* MAX_SLICES default
TP_PCT == Rat(3, 100)            \* TP_PCT default 0.03
SCAN_VOLUME_MULTIPLIER == 15     \* evaluate_symbol_for_signal(klines, volume_multiplier=15)

\* str.endswith
endswith(s, suffix) ==
    /\ Len(s) >= Len(suffix)
    /\ SubSeq(s, Len(s) - Len(suffix) + 1, Len(s)) = suffix

\* get_usdtm_symbols: PERPETUAL contracts whose symbol ends with USDT
get_usdtm_symbols(info) ==
    LET Keep(s) == s.contractType = "PERPETUAL" /\ endswith(s.symbol, "USDT")
        kept == SelectSeq(info, Keep)
    IN  [i \in 1..Len(kept) |-> kept[i].symbol]

\* fetch_last_3_klines: None (here <<>>) on an exception or on fewer than 3 rows
fetch_last_3_klines(resp) ==
    IF ~resp.ok THEN <<>>
    ELSE IF Len(resp.rows) < 3 THEN <<>>
    ELSE resp.rows

\* load_state: a missing or unreadable file gives an empty ledger
load_state(file) == IF file.kind = "ok" THEN file.open_trades ELSE <<>>

\* line 105-117: timing gate, load_state, Executor, get_usdtm_symbols
ScanStart ==
    /\ pc = "idle"
    /\ scans < MaxScans
    /\ scans' = scans + 1
    /\ \E gate \in BOOLEAN, listed \in BOOLEAN :
         IF ~gate
         THEN /\ pc' = "idle"
              /\ UNCHANGED <<symbols, symIdx, new_opened, open_trades, visited>>
         ELSE IF ~listed
         THEN \* futures_exchange_info raises in get_usdtm_symbols: nothing catches it
              /\ pc' = "crashed"
              /\ open_trades' = load_state(state_file)
              /\ UNCHANGED <<symbols, symIdx, new_opened, visited>>
         ELSE /\ open_trades' = load_state(state_file)
              /\ symbols' = get_usdtm_symbols(exchange.symbols)
              /\ new_opened' = <<>>
              /\ visited' = <<>>
              /\ symIdx' = 1
              /\ pc' = IF symbols' = <<>> THEN "save" ELSE "fetch"
    /\ UNCHANGED <<klines, signal, sigparams, state_file, execer, exchange>>
    /\ UNCHANGED tradeVars

\* the position after the body of the for-loop ends for symbols[symIdx]
AfterSymbol == IF symIdx >= Len(symbols) THEN "save" ELSE "fetch"

\* a loop body that trades on the signal left by the symbol before when the
\* candles of this one cannot be fetched
ScanSymbolStaleSignal ==
    /\ pc = "fetch"
    /\ visited' = Append(visited, symbols[symIdx])
    /\ \E resp \in exchange.klines :
         LET k == fetch_last_3_klines(resp)
             sig == evaluate_symbol_for_signal(k, sigparams.volume_multiplier,
                                               sigparams.c1_dollar_min)
         IN  /\ klines' = k
             /\ IF (k = <<>> \/ Len(k) # 3) /\ signal = None
                THEN /\ pc' = AfterSymbol
                     /\ symIdx' = symIdx + 1
                     /\ UNCHANGED <<signal, tpc, targs>>
                ELSE IF k = <<>> \/ Len(k) # 3
                THEN /\ pc' = "trade"
                     /\ tpc' = "margin"
                     /\ targs' = [symbol |-> symbols[symIdx],
                                  direction |-> signal.direction,
                                  entry_price_est |-> signal.entry_price_est,
                                  current_open_count |-> 0]
                     /\ UNCHANGED <<signal, symIdx>>
                ELSE /\ signal' = sig
                     /\ IF sig = None
                        THEN /\ pc' = AfterSymbol
                             /\ symIdx' = symIdx + 1
                             /\ UNCHANGED <<tpc, targs>>
                        ELSE /\ pc' = "trade"
                             /\ tpc' = "margin"
                             /\ targs' = [symbol |-> symbols[symIdx],
                                          direction |-> sig.direction,
                                          entry_price_est |-> sig.entry_price_est,
                                          current_open_count |-> 0]
                             /\ UNCHANGED symIdx
    /\ UNCHANGED <<scans, symbols, new_opened, open_trades, state_file>>
    /\ UNCHANGED <<sigparams, execer, exchange>>
    /\ UNCHANGED <<usdt_balance, slice_amount, current_price, qty, qty_step,
                   fill_price, result, calls>>

\* a loop body that skips the symbol once the ledger and this scan together
\* hold max_slices trades
ScanSymbolSlotGated ==
    /\ pc = "fetch"
    /\ visited' = Append(visited, symbols[symIdx])
    /\ \E resp \in exchange.klines :
         LET k == fetch_last_3_klines(resp)
             sig == evaluate_symbol_for_signal(k, sigparams.volume_multiplier,
                                               sigparams.c1_dollar_min)
         IN  /\ klines' = k
             /\ IF k = <<>> \/ Len(k) # 3
                THEN /\ pc' = AfterSymbol
                     /\ symIdx' = symIdx + 1
                     /\ UNCHANGED <<signal, tpc, targs>>
                ELSE /\ signal' = sig
                     /\ IF sig = None
                           \/ Len(open_trades) + Len(new_opened) >= execer.max_slices
                        THEN /\ pc' = AfterSymbol
                             /\ symIdx' = symIdx + 1
                             /\ UNCHANGED <<tpc, targs>>
                        ELSE /\ pc' = "trade"
                             /\ tpc' = "margin"
                             /\ targs' = [symbol |-> symbols[symIdx],
                                          direction |-> sig.direction,
                                          entry_price_est |-> sig.entry_price_est,
                                          current_open_count |-> 0]
                             /\ UNCHANGED symIdx
    /\ UNCHANGED <<scans, symbols, new_opened, open_trades, state_file>>
    /\ UNCHANGED <<sigparams, execer, exchange>>
    /\ UNCHANGED <<usdt_balance, slice_amount, current_price, qty, qty_step,
                   fill_price, result, calls>>

\* line 118-142: fetch the candles, evaluate them and call open_trade on a signal
ScanSymbol ==
    /\ pc = "fetch"
    /\ visited' = Append(visited, symbols[symIdx])
    /\ \E resp \in exchange.klines :
         LET k == fetch_last_3_klines(resp)
             sig == evaluate_symbol_for_signal(k, sigparams.volume_multiplier,
                                               sigparams.c1_dollar_min)
         IN  /\ klines' = k
             /\ IF k = <<>> \/ Len(k) # 3
                THEN \* no candles, or c1, c2, c3 = klines raises and line 155
                     \* catches it
                     /\ pc' = AfterSymbol
                     /\ symIdx' = symIdx + 1
                     /\ UNCHANGED <<signal, tpc, targs>>
                ELSE /\ signal' = sig
                     /\ IF sig = None
                        THEN /\ pc' = AfterSymbol
                             /\ symIdx' = symIdx + 1
                             /\ UNCHANGED <<tpc, targs>>
                        ELSE /\ pc' = "trade"
                             /\ tpc' = "margin"
                             /\ targs' = [symbol |-> symbols[symIdx],
                                          direction |-> sig.direction,
                                          entry_price_est |-> sig.entry_price_est,
                                          current_open_count |-> 0]
                             /\ UNCHANGED symIdx
    /\ UNCHANGED <<scans, symbols, new_opened, open_trades, state_file>>
    /\ UNCHANGED <<sigparams, execer, exchange>>
    /\ UNCHANGED <<usdt_balance, slice_amount, current_price, qty, qty_step,
                   fill_price, result, calls>>

\* the ledger entry built from a successful result
LedgerEntry ==
    [symbol |-> targs.symbol,
     direction |-> signal.direction,
     entry_time |-> signal.entry_timestamp,
     entry_price |-> result.fill_price,
     qty |-> result.qty,
     tp_price |-> result.tp_price,
     slice_amount_usdt |-> result.slice_amount_usdt]

\* a failed or raising open_trade that ends the for-loop
ScanResultAborting ==
    /\ pc = "trade"
    /\ tpc \in {"returned", "raised"}
    /\ new_opened' = IF tpc = "returned" /\ result.ok
                     THEN Append(new_opened, LedgerEntry)
                     ELSE new_opened
    /\ pc' = IF tpc = "raised" \/ ~result.ok THEN "save" ELSE AfterSymbol
    /\ symIdx' = symIdx + 1
    /\ tpc' = "idle"
    /\ targs' = NoArgs
    /\ usdt_balance' = 0
    /\ slice_amount' = RatZero
    /\ current_price' = 0
    /\ qty' = RatZero
    /\ qty_step' = DEFAULT_STEP
    /\ fill_price' = 0
    /\ result' = None
    /\ calls' = <<>>
    /\ UNCHANGED <<scans, symbols, open_trades, state_file, visited>>
    /\ UNCHANGED <<klines, signal, sigparams, execer, exchange>>

\* line 143-156: record a successful result; an exception is caught and logged
ScanResult ==
    /\ pc = "trade"
    /\ tpc \in {"returned", "raised"}
    /\ new_opened' = IF tpc = "returned" /\ result.ok
                     THEN Append(new_opened, LedgerEntry)
                     ELSE new_opened
    /\ pc' = AfterSymbol
    /\ symIdx' = symIdx + 1
    /\ tpc' = "idle"
    /\ targs' = NoArgs
    /\ usdt_balance' = 0
    /\ slice_amount' = RatZero
    /\ current_price' = 0
    /\ qty' = RatZero
    /\ qty_step' = DEFAULT_STEP
    /\ fill_price' = 0
    /\ result' = None
    /\ calls' = <<>>
    /\ UNCHANGED <<scans, symbols, open_trades, state_file, visited>>
    /\ UNCHANGED <<klines, signal, sigparams, execer, exchange>>

\* a save that writes only the trades of this scan
ScanSaveOverwriting ==
    /\ pc = "save"
    /\ IF new_opened # <<>>
       THEN /\ open_trades' = open_trades \o new_opened
            /\ state_file' = [kind |-> "ok", open_trades |-> new_opened]
       ELSE UNCHANGED <<open_trades, state_file>>
    /\ pc' = "idle"
    \* the locals klines and signal end with the call
    /\ klines' = <<>>
    /\ signal' = None
    /\ UNCHANGED <<scans, symbols, symIdx, new_opened, visited>>
    /\ UNCHANGED <<sigparams, execer, exchange>>
    /\ UNCHANGED tradeVars

\* line 158-164: extend the ledger and save it when something was opened
ScanSave ==
    /\ pc = "save"
    /\ IF new_opened # <<>>
       THEN /\ open_trades' = open_trades \o new_opened
            /\ state_file' = [kind |-> "ok", open_trades |-> open_trades \o new_opened]
       ELSE UNCHANGED <<open_trades, state_file>>
    /\ pc' = "idle"
    \* the locals klines and signal end with the call
    /\ klines' = <<>>
    /\ signal' = None
    /\ UNCHANGED <<scans, symbols, symIdx, new_opened, visited>>
    /\ UNCHANGED <<sigparams, execer, exchange>>
    /\ UNCHANGED tradeVars

-----------------------------------------------------------------------------
(* strategy.py called on its own *)

EvaluateSignal ==
    /\ pc = "signal"
    /\ signal' = evaluate_symbol_for_signal(klines, sigparams.volume_multiplier,
                                            sigparams.c1_dollar_min)
    /\ pc' = "signal_done"
    /\ UNCHANGED <<klines, sigparams, execer, exchange>>
    /\ UNCHANGED scanVars
    /\ UNCHANGED tradeVars

-----------------------------------------------------------------------------
(* Exchange data *)

Candle(t, o, h, l, c, v) ==
    [open_time |-> t, open |-> o, high |-> h, low |-> l, close |-> c, volume |-> v]

Instrument(sym, quote, ctype, filters) ==
    [symbol |-> sym, quote |-> quote, contractType |-> ctype, filters |-> filters]

PriceFilter == [filterType |-> "PRICE_FILTER"]
Lot(step) == [filterType |-> "LOT_SIZE", stepSize |-> step]

\* interval="3m" in milliseconds
CANDLE_MS == 180000
\* open times of three consecutive candles
T1 == 2 * CANDLE_MS
T2 == 3 * CANDLE_MS
T3 == 4 * CANDLE_MS

LongKlines  == <<Candle(T1, 100, 101, 99, 100, 60), Candle(T2, 100, 120, 95, 118, 900),
                 Candle(T3, 116, 116, 116, 116, 1)>>
ShortKlines == <<Candle(T1, 100, 101, 99, 100, 60), Candle(T2, 100, 110, 80, 82, 900),
                 Candle(T3, 84, 84, 84, 84, 1)>>
\* one row more than limit=3 asks for
FourKlines  == Append(LongKlines, Candle(T3 + CANDLE_MS, 116, 116, 116, 116, 1))
FlatKlines  == <<Candle(T1, 100, 101, 99, 100, 60), Candle(T2, 100, 110, 90, 100, 900),
                 Candle(T3, 100, 100, 100, 100, 1)>>

Num(v) == [t |-> "num", v |-> v]
Null == [t |-> "null"]

\* a ledger entry written by an earlier run
OldEntry ==
    [symbol |-> "XRPUSDT", direction |-> "SHORT", entry_time |-> IsoFormat(T1),
     entry_price |-> 50, qty |-> Rat(10, 1), tp_price |-> Rat(97, 2),
     slice_amount_usdt |-> Rat(100, 1)]

\* a ledger that already holds as many entries as there are slices
FullLedger == [i \in 1..MAX_SLICES |-> OldEntry]

\* what the exchange may answer during a scan
ScanExchange ==
    [symbols |-> <<Instrument("BTCUSDT", "USDT", "PERPETUAL",
                              <<PriceFilter, Lot(Rat(1, 1000))>>),
                   Instrument("BTCUSD_PERP", "USD", "PERPETUAL",
                              <<PriceFilter, Lot(Rat(1, 1))>>),
                   Instrument("ETHUSDT_QTR", "USDT", "CURRENT_QUARTER",
                              <<PriceFilter, Lot(Rat(1, 1000))>>),
                   Instrument("DOGEUSDT", "USDT", "PERPETUAL",
                              <<PriceFilter, Lot(Rat(1, 1))>>)>>,
     wallets |-> {<<[asset |-> "BNB", balance |-> 5],
                    [asset |-> "USDT", availableBalance |-> 1000, balance |-> 1200]>>},
     tickers |-> {[symbol |-> "X", price |-> 300]},
     orders  |-> {[orderId |-> 1, avgPrice |-> Num(301)]},
     klines  |-> {[ok |-> FALSE],
                  [ok |-> TRUE, rows |-> <<LongKlines[2], LongKlines[3]>>],
                  [ok |-> TRUE, rows |-> LongKlines],
                  [ok |-> TRUE, rows |-> FourKlines],
                  [ok |-> TRUE, rows |-> ShortKlines],
                  [ok |-> TRUE, rows |-> FlatKlines]}]

\* what the exchange may answer when open_trade is called on its own
TradeExchange ==
    [symbols |-> <<Instrument("BTCUSDT", "USDT", "PERPETUAL",
                              <<PriceFilter, Lot(Rat(1, 1000))>>),
                   Instrument("ETHUSDT", "USDT", "PERPETUAL",
                              <<PriceFilter, Lot(Rat(1, 100))>>),
                   Instrument("XRPUSDT", "USDT", "PERPETUAL",
                              <<PriceFilter, Lot(Rat(1, 10))>>),
                   Instrument("ADAUSDT", "USDT", "PERPETUAL",
                              <<PriceFilter, Lot(Rat(1, 2))>>),
                   Instrument("DOGEUSDT", "USDT", "PERPETUAL",
                              <<PriceFilter, Lot(Rat(1, 1))>>),
                   Instrument("SHIBUSDT", "USDT", "PERPETUAL",
                              <<PriceFilter, Lot(Rat(5, 1))>>),
                   Instrument("TRXUSDT", "USDT", "PERPETUAL", <<PriceFilter>>),
                   Instrument("LTCUSDT", "USDT", "PERPETUAL",
                              <<PriceFilter, [filterType |-> "LOT_SIZE"]>>),
                   Instrument("ZECUSDT", "USDT", "PERPETUAL",
                              <<PriceFilter, Lot(RatZero)>>)>>,
     wallets |-> {<<>>,
                  <<[asset |-> "BNB", balance |-> 5]>>,
                  <<[asset |-> "USDT", availableBalance |-> 0, balance |-> 50]>>,
                  <<[asset |-> "USDT", availableBalance |-> 1, balance |-> 50]>>,
                  <<[asset |-> "BNB", balance |-> 5],
                    [asset |-> "USDT", availableBalance |-> 1000]>>,
                  <<[asset |-> "USDT", balance |-> 600]>>,
                  <<[asset |-> "USDT"]>>},
     tickers |-> {[symbol |-> "X"],
                  [symbol |-> "X", price |-> 0],
                  [symbol |-> "X", price |-> 7],
                  [symbol |-> "X", price |-> 300],
                  [symbol |-> "X", price |-> 100000]},
     orders  |-> {[orderId |-> 1],
                  [orderId |-> 1, avgPrice |-> Num(0)],
                  [orderId |-> 1, avgPrice |-> Num(101)],
                  [orderId |-> 1, avgPrice |-> Null]},
     klines  |-> {[ok |-> FALSE]}]

TradeSymbols == {"BTCUSDT", "ETHUSDT", "XRPUSDT", "ADAUSDT", "DOGEUSDT", "SHIBUSDT",
                 "TRXUSDT", "LTCUSDT", "ZECUSDT", "NOPEUSDT"}
TradeMaxSlices == {1, 3, MAX_SLICES}
TradePriceEstimates == {0, 116}

\* candles given to the detector when it is called on its own
SignalKlines ==
    { <<Candle(T1, o1, o1, o1, o1, v1), Candle(T2, o1, h2, l2, o1, v2),
        Candle(T3, 116, 116, 116, 116, 1)>> :
        o1 \in {-100, 0, 100}, v1 \in {-60, 0, 55, 56, 60},
        h2 \in {-120, 110, 114, 115, 120}, l2 \in {80, 85, 86, 95},
        v2 \in {-900, 0, 839, 840, 900, 1080} }
    \cup { <<Candle(T1, 100, 100, 100, 100, 60), Candle(T2, 100, 120, 95, 100, 900)>> }

-----------------------------------------------------------------------------
(* Specifications *)

ScanIdle ==
    /\ scans = 0
    /\ symbols = <<>>
    /\ symIdx = 1
    /\ new_opened = <<>>
    /\ open_trades = <<>>
    /\ visited = <<>>

\* the bot: the main loop calling run_bot_iteration
Init ==
    /\ pc = "idle"
    /\ ScanIdle
    /\ state_file \in {[kind |-> "missing"], [kind |-> "corrupt"],
                       [kind |-> "ok", open_trades |-> <<>>],
                       [kind |-> "ok", open_trades |-> <<OldEntry>>],
                       [kind |-> "ok", open_trades |-> FullLedger]}
    /\ klines = <<>>
    /\ signal = None
    /\ sigparams = [volume_multiplier |-> SCAN_VOLUME_MULTIPLIER,
                    c1_dollar_min |-> C1_DOLLAR_MIN]
    /\ execer = [tp_pct |-> TP_PCT, max_slices |-> MAX_SLICES, leverage |-> LEVERAGE]
    /\ TradeIdle
    /\ exchange = ScanExchange

Next ==
    \/ ScanStart
    \/ ScanSymbol
    \/ ScanResult
    \/ ScanSave
    \/ SetMargin
    \/ SetLeverage
    \/ ReadBalance
    \/ FetchTicker
    \/ ComputeQty
    \/ PlaceEntry
    \/ PlaceExit

Spec == Init /\ [][Next]_vars

\* Executor.open_trade called on its own
InitTrade ==
    /\ pc = "direct"
    /\ ScanIdle
    /\ state_file = [kind |-> "missing"]
    /\ klines = <<>>
    /\ signal = None
    /\ sigparams = [volume_multiplier |-> VOLUME_MULTIPLIER_DEFAULT,
                    c1_dollar_min |-> C1_DOLLAR_MIN]
    /\ execer \in [tp_pct : {TP_PCT}, max_slices : TradeMaxSlices, leverage : {LEVERAGE}]
    /\ tpc = "margin"
    /\ targs \in [symbol : TradeSymbols, direction : {"LONG", "SHORT"},
                  entry_price_est : TradePriceEstimates,
                  current_open_count : 0..MaxOpenCount]
    /\ usdt_balance = 0
    /\ slice_amount = RatZero
    /\ current_price = 0
    /\ qty = RatZero
    /\ qty_step = DEFAULT_STEP
    /\ fill_price = 0
    /\ result = None
    /\ calls = <<>>
    /\ exchange = TradeExchange

SpecTrade == InitTrade /\ [][NextTrade]_vars

\* evaluate_symbol_for_signal called on its own
InitSignal ==
    /\ pc = "signal"
    /\ ScanIdle
    /\ state_file = [kind |-> "missing"]
    /\ klines \in SignalKlines
    /\ signal = None
    /\ sigparams \in [volume_multiplier : {SCAN_VOLUME_MULTIPLIER, VOLUME_MULTIPLIER_DEFAULT},
                      c1_dollar_min : {C1_DOLLAR_MIN}]
    /\ execer = [tp_pct |-> TP_PCT, max_slices |-> MAX_SLICES, leverage |-> LEVERAGE]
    /\ TradeIdle
    /\ exchange = ScanExchange

NextSignal == EvaluateSignal

SpecSignal == InitSignal /\ [][NextSignal]_vars

-----------------------------------------------------------------------------
(* Properties of Executor.open_trade *)

MarginCall(c)   == c.op = "futures_change_margin_type"
LeverageCall(c) == c.op = "futures_change_leverage"
EntryCall(c)    == c.op = "futures_create_order" /\ c.req.type = "MARKET"
ExitCall(c)     == c.op = "futures_create_order" /\ c.req.type = "LIMIT"
StepCall(c)     == MarginCall(c) \/ LeverageCall(c) \/ EntryCall(c) \/ ExitCall(c)

\* the calls of the four pipeline steps, in the order they were made
StepCalls == SelectSeq(calls, StepCall)

StepRank(c) == IF MarginCall(c) THEN 1
               ELSE IF LeverageCall(c) THEN 2
               ELSE IF EntryCall(c) THEN 3
               ELSE 4

HasCall(P(_)) == \E i \in 1..Len(calls) : P(calls[i])
HasFailed(P(_)) == \E i \in 1..Len(calls) : P(calls[i]) /\ ~calls[i].ok
HasSucceeded(P(_)) == \E i \in 1..Len(calls) : P(calls[i]) /\ calls[i].ok

IsFailure(r) == DOMAIN r = {"ok", "error"} /\ r.ok = FALSE

\* C1: the i-th step call of an open_trade call is step i of margin mode,
\* leverage, market entry, take-profit exit (so the order is fixed and no step
\* is attempted twice), and an exit call is made only after an entry call that
\* succeeded
C1_StepOrder ==
    /\ \A i \in 1..Len(StepCalls) : StepRank(StepCalls[i]) = i
    /\ HasCall(ExitCall) => HasSucceeded(EntryCall)

\* all four steps were attempted although the margin call and the exit call failed
C1_Witness ==
    /\ tpc = "returned"
    /\ Len(StepCalls) = 4
    /\ ~StepCalls[1].ok
    /\ ~StepCalls[4].ok

\* C3: once the leverage call has failed, it is the last exchange call of the
\* open_trade call (no balance read, ticker or metadata fetch, entry or exit
\* follows) and open_trade has returned {ok: False, error}
C3_LeverageFailureAborts ==
    \A i \in 1..Len(calls) :
        (LeverageCall(calls[i]) /\ ~calls[i].ok) =>
            /\ i = Len(calls)
            /\ tpc = "returned"
            /\ IsFailure(result)

\* the leverage call failed after a successful margin call
C3_Witness ==
    /\ tpc = "returned"
    /\ Len(calls) = 2
    /\ calls[1].ok
    /\ LeverageCall(calls[2]) /\ ~calls[2].ok
    /\ result = Failure("leverage_error")

\* C4: once the market entry order has failed, open_trade has returned
\* {ok: False, error} and has submitted no take-profit order
C4_EntryFailureAborts ==
    HasFailed(EntryCall) =>
        /\ tpc = "returned"
        /\ IsFailure(result)
        /\ ~HasCall(ExitCall)

\* the entry order failed for a positive quantity
C4_Witness ==
    /\ tpc = "returned"
    /\ HasFailed(EntryCall)
    /\ RatLT(RatZero, qty)
    /\ result = Failure("order_error")

\* the quantity has been computed by _qty_from_usdt in this call
QtyComputed ==
    /\ tpc \in {"entry", "exit", "returned"}
    /\ HasCall(LAMBDA c : c.op = "futures_symbol_ticker")

\* C5: every entry order carries a quantity > 0, and a computed quantity <= 0
\* makes open_trade return {ok: False, error: "computed qty <= 0"} with no
\* order submitted
C5_NoOrderWithoutQty ==
    /\ \A i \in 1..Len(calls) :
           EntryCall(calls[i]) => RatLT(RatZero, calls[i].req.quantity)
    /\ (QtyComputed /\ RatLE(qty, RatZero)) =>
           /\ tpc = "returned"
           /\ result = Failure("computed qty <= 0")
           /\ ~HasCall(EntryCall)
           /\ ~HasCall(ExitCall)

\* a positive raw quantity was floored to zero and the call was aborted
C5_Witness ==
    /\ tpc = "returned"
    /\ current_price > 0
    /\ RatLT(RatZero, slice_amount)
    /\ HasSucceeded(LAMBDA c : c.op = "futures_exchange_info")
    /\ qty = RatZero
    /\ result = Failure("computed qty <= 0")

\* the balance has been read and the slice computed in this call
SliceComputed == HasCall(LAMBDA c : c.op = "futures_account_balance")

HalfOf(balance) == Rat(balance, 2)

\* C6: remaining_slots >= 1 and 0 <= slice_amount <= 0.5 * balance, also when
\* current_open_count >= max_slices; a successful outcome reports such a slice
C6_SliceBounds ==
    /\ remaining_slots(execer.max_slices, targs.current_open_count) >= 1
    /\ SliceComputed =>
           /\ usdt_balance >= 0
           /\ RatLE(RatZero, slice_amount)
           /\ RatLE(slice_amount, HalfOf(usdt_balance))
           /\ slice_amount = slice_for(usdt_balance,
                  Max(1, execer.max_slices - targs.current_open_count))
    /\ (tpc = "returned" /\ result.ok) =>
           /\ RatLE(RatZero, result.slice_amount_usdt)
           /\ RatLE(result.slice_amount_usdt, HalfOf(usdt_balance))

\* a trade opened with more trades already open than there are slices
C6_Witness ==
    /\ tpc = "returned"
    /\ result.ok
    /\ targs.current_open_count > execer.max_slices
    /\ usdt_balance > 0
    /\ result.slice_amount_usdt = HalfOf(usdt_balance)

\* products, quotients, sums and differences of rationals, without rounding
RatMul(a, b) == Rat(a.num * b.num, a.den * b.den)
RatDiv(a, b) == Rat(a.num * b.den, a.den * b.num)
RatAdd(a, b) == Rat(a.num * b.den + b.num * a.den, a.den * b.den)
RatSub(a, b) == Rat(a.num * b.den - b.num * a.den, a.den * b.den)

\* slice_amount * leverage / price, the number raw_qty is the float nearest to
RawQty == RatDiv(RatMul(slice_amount, RatOfInt(execer.leverage)),
                 RatOfInt(current_price))

\* C7: the quantity returned by _qty_from_usdt for a price > 0 is a
\* non-negative integer multiple of the step size and at most raw_qty
C7_QtyMultipleOfStep ==
    (QtyComputed /\ current_price > 0) =>
        /\ IsNonNegMultiple(qty, qty_step)
        /\ RatLE(qty, RawQty)

-----------------------------------------------------------------------------
(* Properties of evaluate_symbol_for_signal *)

Evaluated == pc = "signal_done" /\ Len(klines) = 3

K1 == klines[1]
K2 == klines[2]

C1Dollar == K1.volume * K1.open

\* up_move >= 0.15 and down_move >= 0.15 for any C1.open # 0 (dividing by a
\* negative open turns the comparison round)
UpMoveGE ==
    IF K1.open > 0
    THEN (K2.high - K1.open) * MOVE_DEN >= MOVE_NUM * K1.open
    ELSE (K2.high - K1.open) * MOVE_DEN <= MOVE_NUM * K1.open
DownMoveGE ==
    IF K1.open > 0
    THEN (K1.open - K2.low) * MOVE_DEN >= MOVE_NUM * K1.open
    ELSE (K1.open - K2.low) * MOVE_DEN <= MOVE_NUM * K1.open

\* the two preconditions the claim names
VolumeGatesPass ==
    /\ C1Dollar >= sigparams.c1_dollar_min
    /\ K2.volume >= K1.volume * sigparams.volume_multiplier

\* LONG when up_move >= 0.15, else SHORT when down_move >= 0.15, else no signal
DirectionRule ==
    IF UpMoveGE THEN signal # None /\ signal.direction = "LONG"
    ELSE IF DownMoveGE THEN signal # None /\ signal.direction = "SHORT"
    ELSE signal = None

\* C8 as stated: for any three candles passing the dollar-volume and the
\* volume-multiplier conditions the result follows the direction rule
C8_AsStated ==
    (Evaluated /\ VolumeGatesPass) => DirectionRule

\* C8 amended: for any three candles with C1.volume > 0 and C1.open > 0 that
\* pass the dollar-volume and the volume-multiplier conditions, the result is
\* LONG when up_move >= 0.15 (also when down_move >= 0.15 as well), else SHORT
\* when down_move >= 0.15, else no signal
C8_DirectionRule ==
    (Evaluated /\ VolumeGatesPass /\ K1.volume > 0 /\ K1.open > 0) => DirectionRule

\* both moves reach the threshold exactly and the signal is LONG
C8_Witness ==
    /\ Evaluated
    /\ VolumeGatesPass /\ K1.volume > 0 /\ K1.open > 0
    /\ (K2.high - K1.open) * MOVE_DEN = MOVE_NUM * K1.open
    /\ (K1.open - K2.low) * MOVE_DEN = MOVE_NUM * K1.open
    /\ signal # None
    /\ signal.direction = "LONG"

\* C9: a Signal is returned only if every gate passed (a failing gate gives
\* no signal), and a returned Signal is LONG or SHORT
C9_GatesGuardSignal ==
    Evaluated =>
        /\ ( \/ C1Dollar < sigparams.c1_dollar_min
             \/ K1.volume <= 0
             \/ K2.volume < K1.volume * sigparams.volume_multiplier
             \/ K1.open <= 0
             \/ (~UpMoveGE /\ ~DownMoveGE) ) => signal = None
        /\ signal # None => signal.direction \in {"LONG", "SHORT"}

\* only the volume-explosion gate fails, by one unit, and there is no signal
C9_Witness ==
    /\ Evaluated
    /\ C1Dollar >= sigparams.c1_dollar_min
    /\ K1.volume > 0 /\ K1.open > 0
    /\ K2.volume = K1.volume * sigparams.volume_multiplier - 1
    /\ UpMoveGE
    /\ signal = None

-----------------------------------------------------------------------------
(* Properties of the scan loop *)

\* the open_trade call under way entered the market and failed to place the exit
Degraded ==
    /\ pc = "trade"
    /\ tpc = "returned"
    /\ HasSucceeded(EntryCall)
    /\ HasFailed(ExitCall)

\* C2: when the entry order succeeds and the take-profit order fails,
\* open_trade returns ok with the fill price, the entry quantity, the slice
\* amount and tp_price None, the failed exit is the last exchange call (nothing
\* cancels or reverses the entry), and the scan loop appends a ledger entry
\* for the symbol with that price and quantity and a null tp_price
C2_DegradedSuccess ==
    /\ [](Degraded =>
            /\ result = [ok |-> TRUE, fill_price |-> fill_price, qty |-> qty,
                         tp_price |-> None, slice_amount_usdt |-> slice_amount]
            /\ ExitCall(calls[Len(calls)])
            /\ Len(SelectSeq(calls, EntryCall)) = 1)
    /\ [][Degraded =>
            /\ Len(new_opened') = Len(new_opened) + 1
            /\ new_opened'[Len(new_opened')] =
                  [symbol |-> targs.symbol,
                   direction |-> targs.direction,
                   entry_time |-> signal.entry_timestamp,
                   entry_price |-> fill_price,
                   qty |-> qty,
                   tp_price |-> None,
                   slice_amount_usdt |-> slice_amount]]_vars

\* the saved ledger holds an unprotected position opened by a scan
C2_Witness ==
    /\ state_file.kind = "ok"
    /\ \E i \in 1..Len(state_file.open_trades) :
          /\ state_file.open_trades[i].tp_price = None
          /\ state_file.open_trades[i].entry_price = 301
          /\ state_file.open_trades[i].symbol = "DOGEUSDT"

\* s is the sequence of the first n elements of t
IsPrefix(s, t) == Len(s) <= Len(t) /\ \A i \in 1..Len(s) : s[i] = t[i]

Scanning == pc \in {"fetch", "trade"}

\* steps open_trade has left before the loop body ends, by position
StepsLeft ==
    IF pc = "fetch" THEN 9
    ELSE IF tpc = "margin" THEN 8
    ELSE IF tpc = "leverage" THEN 7
    ELSE IF tpc = "balance" THEN 6
    ELSE IF tpc = "ticker" THEN 5
    ELSE IF tpc = "qty" THEN 4
    ELSE IF tpc = "entry" THEN 3
    ELSE IF tpc = "exit" THEN 2
    ELSE 1

\* a bound on the steps the scan has left: ten per symbol not yet finished
ScanMeasure == (Len(symbols) - symIdx) * 10 + StepsLeft

\* the program is at a position of the loop body from which its next step
\* is defined: a symbol to fetch, a step of open_trade, or its result to record
AtLoopStep ==
    IF pc = "fetch" THEN symIdx \in 1..Len(symbols) /\ tpc = "idle"
    ELSE /\ symIdx \in 1..Len(symbols)
         /\ tpc \in {"margin", "leverage", "balance", "ticker", "qty", "entry",
                     "exit", "returned", "raised"}

\* C10: during a scan the loop bodies started so far are those of the first
\* symbols of the list, once each and in list order, whatever failed; the
\* loop ends with every symbol visited; and the scan terminates: while it
\* runs the program is at a step of the loop body, and every step either
\* ends the loop or brings its end nearer
C10_ScanCompletes ==
    /\ [](Scanning =>
            /\ IsPrefix(visited, symbols)
            /\ Len(visited) = IF pc = "fetch" THEN symIdx - 1 ELSE symIdx
            /\ ScanMeasure > 0
            /\ AtLoopStep)
    /\ [](pc = "save" => visited = symbols)
    /\ [][Scanning =>
            \/ pc' = "save"
            \/ Scanning' /\ ScanMeasure' < ScanMeasure]_vars

\* the first symbol gave a signal, open_trade failed or raised for it, and
\* the loop is at the second symbol
C10_Witness ==
    /\ pc = "fetch"
    /\ symIdx = 2
    /\ visited = <<symbols[1]>>
    /\ signal # None
    /\ new_opened = <<>>

\* open_trade has ended, by a return or by an exception leaving it
Ended == tpc \in {"returned", "raised"}

\* a structured outcome: a boolean ok, and an error when ok is false
Structured(r) ==
    /\ "ok" \in DOMAIN r
    /\ r.ok \in BOOLEAN
    /\ ~r.ok => "error" \in DOMAIN r

\* C11: whatever collaborators fail (margin mode, leverage, balance, live
\* price, instrument metadata, entry order, exit order), an open_trade call
\* that ends has returned a structured outcome; no exception leaves it
C11_AlwaysStructured ==
    Ended => tpc = "returned" /\ Structured(result)

\* the trades open when a symbol is handled: those of the loaded ledger and
\* those opened earlier in the same scan
RunningCount == Len(open_trades) + Len(new_opened)

\* C12: the current_open_count the scan loop passes to open_trade is the
\* running count of trades already open or opened earlier in the same scan
C12_CountIsRunningCount ==
    (pc = "trade") => targs.current_open_count = RunningCount

\* the exchange calls of an open_trade call other than the margin-mode call
CallsAfterMargin == SelectSeq(calls, LAMBDA c : ~MarginCall(c))

\* what open_trade returns, told from the calls other than the margin-mode
\* call and the values computed for the order
OutcomeAfterMargin ==
    LET rest == CallsAfterMargin
        Some(P(_)) == \E i \in 1..Len(rest) : P(rest[i])
        SomeFailed(P(_)) == \E i \in 1..Len(rest) : P(rest[i]) /\ ~rest[i].ok
    IN  IF SomeFailed(LeverageCall) THEN Failure("leverage_error")
        ELSE IF ~Some(EntryCall) THEN Failure("computed qty <= 0")
        ELSE IF SomeFailed(EntryCall) THEN Failure("order_error")
        ELSE IF ~Some(ExitCall) THEN Failure("float_error")
        ELSE [ok |-> TRUE, fill_price |-> fill_price, qty |-> qty,
              tp_price |-> IF SomeFailed(ExitCall) THEN None
                           ELSE tp_price_for(side_of(targs.direction), fill_price,
                                             execer.tp_pct),
              slice_amount_usdt |-> slice_amount]

\* C13: a margin-mode failure is not fatal: whether the margin-mode call
\* succeeded or failed, the next step is the leverage call, nothing is
\* returned at that step, and the outcome of the call is the one told by the
\* other calls alone
C13_MarginFailureIgnored ==
    /\ [][tpc = "margin" =>
            /\ tpc' = "leverage"
            /\ result' = result
            /\ MarginCall(calls'[Len(calls')])]_vars
    /\ [](HasCall(MarginCall) /\ tpc # "leverage" =>
            /\ Len(calls) >= 2
            /\ LeverageCall(calls[2])
            /\ calls[2].req = [symbol |-> targs.symbol, leverage |-> execer.leverage])
    /\ [](tpc = "returned" => result = OutcomeAfterMargin)

\* the margin-mode call failed and the trade was opened with its take-profit
C13_Witness ==
    /\ tpc = "returned"
    /\ HasFailed(MarginCall)
    /\ result.ok
    /\ result.tp_price # None

BalanceCall(c) == c.op = "futures_account_balance"

\* the rows of a balance answer that are for the quote asset
QuoteRows(resp) == SelectSeq(resp, LAMBDA r : r.asset = "USDT")

\* the balance a quote-asset row reports
Reported(row) ==
    IF "availableBalance" \in DOMAIN row THEN row.availableBalance
    ELSE IF "balance" \in DOMAIN row THEN row.balance
    ELSE 0

\* the balance read gave a quote-asset balance
Yielded(c) == c.ok /\ QuoteRows(c.resp) # <<>>

\* C14: when the balance read fails, the balance used is the placeholder
\* 1000, the slice is computed from it and the call goes on to the reference
\* price without returning; the placeholder is used only when the read did
\* not give a quote-asset balance, otherwise the balance is the reported one
C14_BalancePlaceholder ==
    /\ [](\A i \in 1..Len(calls) : BalanceCall(calls[i]) =>
            /\ usdt_balance = IF Yielded(calls[i])
                              THEN Reported(QuoteRows(calls[i].resp)[1])
                              ELSE FALLBACK_BALANCE
            /\ ~calls[i].ok =>
                 /\ RatLT(RatZero, slice_amount)
                 /\ slice_amount =
                       slice_for(FALLBACK_BALANCE,
                                 remaining_slots(execer.max_slices,
                                                 targs.current_open_count)))
    /\ [][tpc = "balance" =>
            /\ tpc' = "ticker"
            /\ result' = result
            /\ BalanceCall(calls'[Len(calls')])]_vars

\* the balance read failed and the entry order was sized from the placeholder
\* and accepted
C14_Witness ==
    /\ tpc = "returned"
    /\ HasFailed(BalanceCall)
    /\ usdt_balance = FALLBACK_BALANCE
    /\ HasSucceeded(EntryCall)
    /\ result.ok

\* the entries of the persisted ledger
Persisted(file) == IF file.kind = "ok" THEN file.open_trades ELSE <<>>

\* open_trade has returned ok = true to the scan loop
ReturnedOk == pc = "trade" /\ tpc = "returned" /\ result.ok

\* C15: the ledger is append-only.  A scan starts with no new entry and
\* collects exactly one per open_trade call that returned ok = true and none
\* otherwise (a tick that the timing gate rejects starts no scan); the save at the
\* end of the scan writes the entries that were persisted before, unchanged
\* and in order, followed by the new ones; with no trade opened the file is
\* not written; and nothing else writes the file
C15_LedgerAppendOnly ==
    /\ [][pc = "save" =>
            IF new_opened = <<>>
            THEN state_file' = state_file
            ELSE /\ state_file'.kind = "ok"
                 /\ Persisted(state_file') = Persisted(state_file) \o new_opened]_vars
    /\ [][pc # "save" => state_file' = state_file]_vars
    /\ [][IF ReturnedOk
          THEN /\ Len(new_opened') = Len(new_opened) + 1
               /\ SubSeq(new_opened', 1, Len(new_opened)) = new_opened
               /\ new_opened'[Len(new_opened')].symbol = targs.symbol
               /\ new_opened'[Len(new_opened')].entry_price = result.fill_price
          ELSE IF pc = "idle" /\ pc' \in {"fetch", "save"}
          THEN new_opened' = <<>>
          ELSE new_opened' = new_opened]_vars

\* a scan that opened two trades has been saved after the entry that was in
\* the ledger before
C15_Witness ==
    /\ pc = "idle"
    /\ scans >= 1
    /\ Len(new_opened) = 2
    /\ state_file = [kind |-> "ok", open_trades |-> <<OldEntry>> \o new_opened]

\* the market entry order of this open_trade call
EntryOf == SelectSeq(calls, EntryCall)[1]

\* fill * (1 + tp_pct) for a long entry, fill * (1 - tp_pct) for a short one
TargetPrice(direction, fill, tp_pct) ==
    IF direction = "LONG"
    THEN RatMul(RatOfInt(fill), RatAdd(RatOfInt(1), tp_pct))
    ELSE RatMul(RatOfInt(fill), RatSub(RatOfInt(1), tp_pct))

\* C16: every take-profit order is a reduce-only, good-till-cancelled limit
\* order on the symbol of the entry, on the opposite side (SELL after a BUY
\* entry of a LONG, BUY after a SELL entry of a SHORT), for the quantity of the
\* entry, at fill_price * (1 + tp_pct) for a LONG and fill_price * (1 - tp_pct)
\* for a SHORT: above the fill for a LONG and below it for a SHORT
C16_ExitClosesEntry ==
    \A i \in 1..Len(calls) : ExitCall(calls[i]) =>
        LET x == calls[i].req
            e == EntryOf.req
        IN  /\ HasSucceeded(EntryCall)
            /\ x.type = "LIMIT" /\ x.timeInForce = "GTC" /\ x.reduceOnly = TRUE
            /\ x.symbol = e.symbol /\ x.symbol = targs.symbol
            /\ e.side = (IF targs.direction = "LONG" THEN "BUY" ELSE "SELL")
            /\ x.side = (IF targs.direction = "LONG" THEN "SELL" ELSE "BUY")
            /\ x.quantity = e.quantity
            /\ x.price = TargetPrice(targs.direction, fill_price, execer.tp_pct)
            /\ execer.tp_pct.num > 0 =>
                 IF targs.direction = "LONG"
                 THEN RatLT(RatOfInt(fill_price), x.price)
                 ELSE RatLT(x.price, RatOfInt(fill_price))

\* a take-profit order was placed for a short entry, below the fill price
C16_Witness ==
    /\ tpc = "returned"
    /\ targs.direction = "SHORT"
    /\ HasSucceeded(ExitCall)
    /\ result.ok
    /\ RatLT(result.tp_price, RatOfInt(result.fill_price))

TickerCall(c) == c.op = "futures_symbol_ticker"

\* the price open_trade has before the order: the live ticker price when the
\* ticker was fetched and carries one, else the caller's estimate
ReferencePrice ==
    LET t == SelectSeq(calls, TickerCall)[1]
    IN  IF t.ok /\ "price" \in DOMAIN t.resp THEN t.resp.price
        ELSE targs.entry_price_est

\* the average fill price of the accepted entry order when the answer has a
\* positive one, else the reference price
ExpectedFill ==
    LET order == EntryOf.resp
    IN  IF "avgPrice" \in DOMAIN order /\ order.avgPrice.t = "num"
           /\ order.avgPrice.v > 0
        THEN order.avgPrice.v
        ELSE ReferencePrice

\* C17: after a successful entry order, the fill price the take-profit price
\* is computed from, and the fill price reported in the outcome, is the
\* order's average fill price when present and positive, else the reference
\* price (the live ticker price if it was fetched, else the caller's estimate)
C17_FillPrice ==
    /\ (tpc = "exit" => fill_price = ExpectedFill)
    /\ \A i \in 1..Len(calls) : ExitCall(calls[i]) =>
          calls[i].req.price =
              TargetPrice(targs.direction, ExpectedFill, execer.tp_pct)
    /\ (tpc = "returned" /\ result.ok => result.fill_price = ExpectedFill)

\* the ticker fetch failed, the accepted order reported an average price of 0,
\* and the outcome reports the caller's estimate as fill price
C17_Witness ==
    /\ tpc = "returned"
    /\ HasFailed(TickerCall)
    /\ HasSucceeded(EntryCall)
    /\ "avgPrice" \in DOMAIN EntryOf.resp
    /\ EntryOf.resp.avgPrice = Num(0)
    /\ result.ok
    /\ result.fill_price = targs.entry_price_est

\* C18: an outcome with ok = false means that no position was opened: no
\* market entry order was accepted by the exchange during that call
C18_FailureMeansNoPosition ==
    (tpc = "returned" /\ ~result.ok) => ~HasSucceeded(EntryCall)

\* an entry order has been submitted for the symbol the scan is at
EntrySubmitted == pc = "trade" /\ HasCall(EntryCall)

\* C19 as stated: an entry order is submitted only while the count of open
\* trades (ledger plus this scan) is below max_slices
C19_AsStated ==
    EntrySubmitted => RunningCount < execer.max_slices

\* C19, amended: max_slices gates no entry order, whatever the count of open
\* trades (ledger plus this scan), also at or above max_slices:
\*  - every symbol of the scan whose three candles give a signal has open_trade
\*    called for it;
\*  - once open_trade has computed the quantity it goes on to the entry step
\*    exactly when that quantity is > 0;
\*  - the entry step submits the market entry order.
C19_NoSlotGate ==
    [][/\ (/\ pc = "fetch"
           /\ Len(klines') = 3
           /\ evaluate_symbol_for_signal(klines', sigparams.volume_multiplier,
                                         sigparams.c1_dollar_min) # None)
          => /\ pc' = "trade"
             /\ tpc' = "margin"
             /\ targs'.symbol = symbols[symIdx]
       /\ (pc = "trade" /\ tpc = "qty" /\ tpc' \in {"entry", "returned"})
          => (tpc' = "entry" <=> RatLT(RatZero, qty'))
       /\ (pc = "trade" /\ tpc = "entry")
          => /\ Len(calls') = Len(calls) + 1
             /\ EntryCall(calls'[Len(calls')])
             /\ calls'[Len(calls')].req.symbol = targs.symbol
             /\ calls'[Len(calls')].req.quantity = qty]_vars

\* the ledger already held max_slices trades and a trade had been opened
\* earlier in the same scan when a further symbol gave a signal, had a
\* quantity > 0 computed and had its entry order accepted
C19_Witness ==
    /\ pc = "trade"
    /\ tpc = "exit"
    /\ RatLT(RatZero, qty)
    /\ EntryCall(calls[Len(calls)])
    /\ calls[Len(calls)].ok
    /\ calls[Len(calls)].req.symbol = targs.symbol
    /\ Len(open_trades) >= execer.max_slices
    /\ Len(new_opened) = 1

OrderCall(c) == c.op = "futures_create_order"

NoDuplicates(s) == \A i, j \in 1..Len(s) : s[i] = s[j] => i = j

\* C20: in a scan over a symbol list without duplicates, orders are submitted
\* only inside the open_trade call for the symbol the loop is at, whose
\* candles were fetched and gave the signal the call was made with; that call
\* submits at most one market entry and at most one take-profit exit, all for
\* that symbol; and the loop leaves a symbol for good once its call has ended,
\* so no symbol gets a second call in the scan
C20_OrdersPerSymbol ==
    /\ [](NoDuplicates(symbols) =>
            /\ NoDuplicates(visited)
            /\ (\E i \in 1..Len(calls) : OrderCall(calls[i])) => pc = "trade"
            /\ pc = "trade" =>
                 /\ klines # <<>>
                 /\ signal # None
                 /\ signal.entry_price_est = klines[3].open
                 /\ targs.symbol = symbols[symIdx]
                 /\ targs.symbol = visited[Len(visited)]
                 /\ targs.direction = signal.direction
                 /\ Len(SelectSeq(calls, EntryCall)) <= 1
                 /\ Len(SelectSeq(calls, ExitCall)) <= 1
                 /\ \A i \in 1..Len(calls) :
                       OrderCall(calls[i]) => calls[i].req.symbol = targs.symbol)
    /\ [][pc = "trade" /\ pc' # "trade" =>
            symIdx' = symIdx + 1 /\ calls' = <<>>]_vars
    /\ [][Scanning /\ Scanning' => symIdx' >= symIdx /\ symbols' = symbols]_vars

\* the first symbol was traded and recorded, and the call for the second
\* symbol has submitted its one entry and its one exit
C20_Witness ==
    /\ pc = "trade"
    /\ symIdx = 2
    /\ Len(new_opened) = 1
    /\ new_opened[1].symbol = symbols[1]
    /\ tpc = "returned"
    /\ Len(SelectSeq(calls, EntryCall)) = 1
    /\ Len(SelectSeq(calls, ExitCall)) = 1
    /\ targs.symbol = symbols[2]

====
